---- MODULE Spec2Model ----
(***************************************************************************)
(* Feature engineering of the Super Bowl prediction pipeline:              *)
(* FeatureEngineer (src/src/features/engineer.py) and the part of main()   *)
(* (src/src/main.py) that drives it.                                       *)
(*                                                                         *)
(* A pandas DataFrame is a record [columns, rows]: the column names in     *)
(* order and the rows in positional order, each row a function from column *)
(* name to value.  Python's reference semantics are kept: DataFrames live  *)
(* in a heap (a sequence of frames, a reference is an index into it), and  *)
(* every method is an operator from a heap and references to a new heap, a *)
(* returned reference and the exception raised, if any.                    *)
(*                                                                         *)
(* Raw statistics are integers.  Rolling means are exact rationals         *)
(* <<numerator, denominator>> in lowest terms with a positive denominator  *)
(* (floating-point rounding is abstracted away); NaN is <<0, 0>>.          *)
(***************************************************************************)
EXTENDS Integers, Sequences, FiniteSets, TLC

VARIABLES window_size, heap, raw, all_team_stats, schedules, sb_features,
          training_df, pc

vars == <<window_size, heap, raw, all_team_stats, schedules, sb_features,
          training_df, pc>>

(***************************************************************************)
(* Bounds of the model.                                                    *)
(***************************************************************************)
MaxLen == 3
MaxWindow == 3
MaxHist == 5
MaxGames == 3

(***************************************************************************)
(* Program constants.                                                      *)
(***************************************************************************)
ROLLING_WINDOW == 5
MinPeriods == 1
MinHistory == 3
DefWeight == 2

rolling_cols == <<"points", "epa", "success", "def_epa",
                  "pts_allowed", "turnovers", "sacks">>

RawColumns == <<"week">> \o rolling_cols

ScheduleColumns == <<"week", "home_team", "away_team", "home_score",
                     "away_score", "game_type">>

Teams == {"SEA", "NE"}

(***************************************************************************)
(* Arithmetic on exact rationals.                                          *)
(***************************************************************************)
Abs(n) == IF n < 0 THEN 0 - n ELSE n

RECURSIVE Gcd(_, _)
Gcd(a, b) == IF b = 0 THEN a ELSE Gcd(b, a % b)

NaN == <<0, 0>>

IsNaN(x) == x[2] = 0

Norm(n, d) == LET g == Gcd(Abs(n), d) IN <<n \div g, d \div g>>

RSub(x, y) ==
    IF IsNaN(x) \/ IsNaN(y) THEN NaN
    ELSE Norm(x[1] * y[2] - y[1] * x[2], x[2] * y[2])

RMul(x, k) == IF IsNaN(x) THEN NaN ELSE Norm(x[1] * k, x[2])

RNeg(x) == <<0 - x[1], x[2]>>

(***************************************************************************)
(* Sequences.                                                              *)
(***************************************************************************)
Range(s) == {s[i] : i \in 1..Len(s)}

RECURSIVE Sum(_, _, _)
Sum(vals, lo, hi) == IF lo > hi THEN 0 ELSE vals[hi] + Sum(vals, lo, hi - 1)

Max(a, b) == IF a > b THEN a ELSE b

(***************************************************************************)
(* The heap of DataFrames.                                                 *)
(***************************************************************************)
Frame(cols, rows) == [columns |-> cols, rows |-> rows]

New(h, f) == [heap |-> Append(h, f), err |-> "none", ref |-> Len(h) + 1]

Raise(h, e) == [heap |-> h, err |-> e, ref |-> 0]

NoCall == [err |-> "nocall", ref |-> 0]

Ret(r) == [err |-> r.err, ref |-> r.ref]

Column(f, col) == [i \in 1..Len(f.rows) |-> f.rows[i][col]]

(***************************************************************************)
(* pandas: DataFrame.sort_values(by) returns a new frame, the rows in      *)
(* ascending order of the key.  The model sorts by insertion; the series   *)
(* of the model have distinct weeks, so every sorting algorithm agrees.    *)
(***************************************************************************)
RECURSIVE Insert(_, _, _)
Insert(sorted, row, by) ==
    IF sorted = <<>> THEN <<row>>
    ELSE IF row[by] < sorted[1][by] THEN <<row>> \o sorted
    ELSE <<sorted[1]>> \o Insert(Tail(sorted), row, by)

RECURSIVE SortRows(_, _)
SortRows(rows, by) ==
    IF rows = <<>> THEN <<>>
    ELSE Insert(SortRows(SubSeq(rows, 1, Len(rows) - 1), by), rows[Len(rows)], by)

sort_values_inplace(h, r, by) ==
    [heap |-> [h EXCEPT ![r] = Frame(h[r].columns, SortRows(h[r].rows, by))],
     err |-> "none", ref |-> r]

sort_values(h, r, by) == New(h, Frame(h[r].columns, SortRows(h[r].rows, by)))

(***************************************************************************)
(* pandas: frame[col] = values assigns a column of the frame in place.     *)
(***************************************************************************)
setitem(h, r, col, vals) ==
    [h EXCEPT ![r] =
        Frame(IF col \in Range(h[r].columns) THEN h[r].columns
              ELSE Append(h[r].columns, col),
              [i \in 1..Len(h[r].rows) |-> (col :> vals[i]) @@ h[r].rows[i]])]

(***************************************************************************)
(* pandas: Series.rolling(window, min_periods).mean().  The constructor    *)
(* validates its arguments; the mean slides over the values, adding the    *)
(* entering observation and removing the one that leaves the window.       *)
(***************************************************************************)
rolling_validate_lenient(window, min_periods) ==
    IF window < 0 THEN "ValueError" ELSE "none"

rolling_validate(window, min_periods) ==
    IF window < 0 THEN "ValueError"
    ELSE IF min_periods > window THEN "ValueError"
    ELSE "none"

RECURSIVE roll_acc_grow(_, _, _)
roll_acc_grow(vals, window, i) ==
    IF i = 0 THEN [sum |-> 0, nobs |-> 0]
    ELSE LET p == roll_acc_grow(vals, window, i - 1)
         IN [sum |-> p.sum + vals[i], nobs |-> p.nobs + 1]

RECURSIVE roll_acc(_, _, _)
roll_acc(vals, window, i) ==
    IF i = 0 THEN [sum |-> 0, nobs |-> 0]
    ELSE LET p == roll_acc(vals, window, i - 1)
             added == [sum |-> p.sum + vals[i], nobs |-> p.nobs + 1]
         IN IF i > window
            THEN [sum |-> added.sum - vals[i - window], nobs |-> added.nobs - 1]
            ELSE added

rolling_mean(vals, window, min_periods) ==
    [i \in 1..Len(vals) |->
        LET acc == roll_acc(vals, window, i)
        IN IF acc.nobs >= min_periods /\ acc.nobs > 0
           THEN Norm(acc.sum, acc.nobs)
           ELSE NaN]

RollName(col, window) == col \o "_rolling_" \o ToString(window)

(***************************************************************************)
(* FeatureEngineer.create_rolling_features                                 *)
(***************************************************************************)
RECURSIVE rolling_loop(_, _, _, _)
rolling_loop(h, window, r, k) ==
    IF k > Len(rolling_cols) THEN [heap |-> h, err |-> "none", ref |-> r]
    ELSE LET col == rolling_cols[k]
             e == rolling_validate(window, MinPeriods)
         IN IF e # "none" THEN Raise(h, e)
            ELSE rolling_loop(
                    setitem(h, r, RollName(col, window),
                            rolling_mean(Column(h[r], col), window, MinPeriods)),
                    window, r, k + 1)

create_rolling_features(h, window, team_stats) ==
    LET s == sort_values(h, team_stats, "week")
    IN rolling_loop(s.heap, window, s.ref, 1)

(***************************************************************************)
(* pandas: frame.iloc[-1], the last row by position; IndexError on a frame *)
(* without rows.                                                           *)
(***************************************************************************)
iloc_last_default(f) ==
    IF Len(f.rows) = 0
    THEN [err |-> "none", row |-> [c \in Range(f.columns) |-> <<0, 1>>]]
    ELSE [err |-> "none", row |-> f.rows[Len(f.rows)]]

iloc_last(f) ==
    IF Len(f.rows) = 0 THEN [err |-> "IndexError", row |-> <<>>]
    ELSE [err |-> "none", row |-> f.rows[Len(f.rows)]]

(***************************************************************************)
(* FeatureEngineer.create_matchup_features                                 *)
(***************************************************************************)
FeatureColumns == <<"pts_diff", "epa_diff", "success_diff", "turnover_diff",
                    "t1_epa", "t2_epa", "t1_success", "t2_success",
                    "def_epa_diff", "pts_allowed_diff", "sacks_diff",
                    "net_pts_diff">>

features_unweighted(t1, t2, window) ==
    LET v1(col) == t1[RollName(col, window)]
        v2(col) == t2[RollName(col, window)]
    IN [pts_diff |-> RSub(v1("points"), v2("points")),
        epa_diff |-> RSub(v1("epa"), v2("epa")),
        success_diff |-> RSub(v1("success"), v2("success")),
        turnover_diff |-> RSub(v1("turnovers"), v2("turnovers")),
        t1_epa |-> v1("epa"),
        t2_epa |-> v2("epa"),
        t1_success |-> v1("success"),
        t2_success |-> v2("success"),
        def_epa_diff |-> RSub(v1("def_epa"), v2("def_epa")),
        pts_allowed_diff |-> RMul(RSub(v1("pts_allowed"), v2("pts_allowed")), DefWeight),
        sacks_diff |-> RMul(RSub(v1("sacks"), v2("sacks")), DefWeight),
        net_pts_diff |-> RSub(RSub(v1("points"), v1("pts_allowed")),
                              RSub(v2("points"), v2("pts_allowed")))]

features(t1, t2, window) ==
    LET v1(col) == t1[RollName(col, window)]
        v2(col) == t2[RollName(col, window)]
    IN [pts_diff |-> RSub(v1("points"), v2("points")),
        epa_diff |-> RSub(v1("epa"), v2("epa")),
        success_diff |-> RSub(v1("success"), v2("success")),
        turnover_diff |-> RSub(v1("turnovers"), v2("turnovers")),
        t1_epa |-> v1("epa"),
        t2_epa |-> v2("epa"),
        t1_success |-> v1("success"),
        t2_success |-> v2("success"),
        def_epa_diff |-> RMul(RSub(v1("def_epa"), v2("def_epa")), DefWeight),
        pts_allowed_diff |-> RMul(RSub(v1("pts_allowed"), v2("pts_allowed")), DefWeight),
        sacks_diff |-> RMul(RSub(v1("sacks"), v2("sacks")), DefWeight),
        net_pts_diff |-> RSub(RSub(v1("points"), v1("pts_allowed")),
                              RSub(v2("points"), v2("pts_allowed")))]

create_matchup_features(h, window, team1_stats, team2_stats) ==
    LET t1 == iloc_last(h[team1_stats])
        t2 == iloc_last(h[team2_stats])
        needed == {RollName(rolling_cols[k], window) : k \in 1..Len(rolling_cols)}
    IN IF t1.err # "none" THEN Raise(h, t1.err)
       ELSE IF t2.err # "none" THEN Raise(h, t2.err)
       ELSE IF ~(needed \subseteq DOMAIN t1.row) \/ ~(needed \subseteq DOMAIN t2.row)
            THEN Raise(h, "KeyError")
       ELSE New(h, Frame(FeatureColumns, <<features(t1.row, t2.row, window)>>))

(***************************************************************************)
(* pandas: frame[mask], the rows where the mask holds, as a new frame.     *)
(***************************************************************************)
RECURSIVE Pick(_, _, _)
Pick(rows, keep, i) ==
    IF i > Len(rows) THEN <<>>
    ELSE (IF i \in keep THEN <<rows[i]>> ELSE <<>>) \o Pick(rows, keep, i + 1)

boolean_index(h, r, keep) ==
    New(h, Frame(h[r].columns, Pick(h[r].rows, keep, 1)))

(***************************************************************************)
(* pandas: pd.concat(frames, ignore_index=True); ValueError on an empty    *)
(* list of frames.                                                         *)
(***************************************************************************)
RECURSIVE ConcatRows(_, _)
ConcatRows(h, refs) ==
    IF refs = <<>> THEN <<>>
    ELSE h[refs[1]].rows \o ConcatRows(h, Tail(refs))

concat(h, refs) ==
    IF refs = <<>> THEN Raise(h, "ValueError")
    ELSE New(h, Frame(h[refs[1]].columns, ConcatRows(h, refs)))

(***************************************************************************)
(* FeatureEngineer.prepare_training_data                                   *)
(***************************************************************************)
regular_season_any(f) == 1..Len(f.rows)

regular_season(f) == {i \in 1..Len(f.rows) : f.rows[i]["game_type"] = "REG"}

prior_weeks_inclusive(f, week) == {i \in 1..Len(f.rows) : f.rows[i]["week"] <= week}

prior_weeks(f, week) == {i \in 1..Len(f.rows) : f.rows[i]["week"] < week}

too_short_home_only(home_len, away_len) == home_len < MinHistory

too_short(home_len, away_len) == home_len < MinHistory \/ away_len < MinHistory

home_win_or_tie(game) == IF game["home_score"] >= game["away_score"] THEN 1 ELSE 0

home_win(game) == IF game["home_score"] > game["away_score"] THEN 1 ELSE 0

point_diff(game) == game["home_score"] - game["away_score"]

iterrows(f) == f.rows

RECURSIVE training_loop(_, _, _, _, _, _)
training_loop(h, window, team_stats, games, i, training_data) ==
    IF i > Len(games) THEN [heap |-> h, err |-> "none", data |-> training_data]
    ELSE
      LET game == games[i]
          home_team == game["home_team"]
          away_team == game["away_team"]
          week == game["week"]
          home_stats == boolean_index(h, team_stats[home_team],
                                      prior_weeks(h[team_stats[home_team]], week))
          away_stats == boolean_index(home_stats.heap, team_stats[away_team],
                                      prior_weeks(home_stats.heap[team_stats[away_team]], week))
          h2 == away_stats.heap
      IN IF too_short(Len(h2[home_stats.ref].rows), Len(h2[away_stats.ref].rows))
         THEN training_loop(h2, window, team_stats, games, i + 1, training_data)
         ELSE
           LET feats == create_matchup_features(h2, window, home_stats.ref, away_stats.ref)
           IN IF feats.err # "none"
              THEN [heap |-> feats.heap, err |-> feats.err, data |-> training_data]
              ELSE
                LET h3 == setitem(feats.heap, feats.ref, "home_win",
                                  <<home_win(game)>>)
                    h4 == setitem(h3, feats.ref, "point_diff", <<point_diff(game)>>)
                IN training_loop(h4, window, team_stats, games, i + 1,
                                 Append(training_data, feats.ref))

prepare_training_data(h, window, team_stats, sched) ==
    LET completed == boolean_index(h, sched, regular_season(h[sched]))
        loop == training_loop(completed.heap, window, team_stats,
                              iterrows(completed.heap[completed.ref]), 1, <<>>)
    IN IF loop.err # "none" THEN Raise(loop.heap, loop.err)
       ELSE concat(loop.heap, loop.data)

(***************************************************************************)
(* main(): the calls on the engineer.  A side is one run of the program on *)
(* its own statistics; side 2 runs after side 1, on the same schedule.     *)
(* sb_features[s] holds one entry per matchup the run asks for.            *)
(***************************************************************************)
Sides == {1, 2}

TeamOrder == <<"SEA", "NE">>

RECURSIVE smooth_teams(_, _, _, _, _)
smooth_teams(h, window, rawrefs, k, done) ==
    IF k > Len(TeamOrder) THEN [heap |-> h, err |-> "none", stats |-> done]
    ELSE LET team == TeamOrder[k]
             r == create_rolling_features(h, window, rawrefs[team])
         IN IF r.err # "none" THEN [heap |-> r.heap, err |-> r.err, stats |-> done]
            ELSE smooth_teams(r.heap, window, rawrefs, k + 1,
                              [done EXCEPT ![team] = r.ref])

Runnable(s) == s = 1 \/ pc[1] \in {"done", "raised"}

SmoothAll(s) ==
    /\ pc[s] = "start"
    /\ Runnable(s)
    /\ LET r == smooth_teams(heap, window_size, raw[s], 1, all_team_stats[s])
       IN /\ heap' = r.heap
          /\ all_team_stats' = [all_team_stats EXCEPT ![s] = r.stats]
          /\ pc' = [pc EXCEPT ![s] = IF r.err = "none" THEN "smoothed" ELSE "raised"]
    /\ UNCHANGED <<window_size, raw, schedules, sb_features, training_df>>

Matchup(s, t1, t2) ==
    /\ pc[s] = "smoothed"
    /\ <<t1, t2>> \in DOMAIN sb_features[s]
    /\ sb_features[s][<<t1, t2>>] = NoCall
    /\ LET r == create_matchup_features(heap, window_size,
                                        all_team_stats[s][t1], all_team_stats[s][t2])
       IN /\ heap' = r.heap
          /\ sb_features' = [sb_features EXCEPT ![s][<<t1, t2>>] = Ret(r)]
    /\ UNCHANGED <<window_size, raw, all_team_stats, schedules, training_df, pc>>

Prepare(s) ==
    /\ pc[s] = "smoothed"
    /\ LET r == prepare_training_data(heap, window_size, all_team_stats[s], schedules)
       IN /\ heap' = r.heap
          /\ training_df' = [training_df EXCEPT ![s] = Ret(r)]
          /\ pc' = [pc EXCEPT ![s] = IF r.err = "none" THEN "done" ELSE "raised"]
    /\ UNCHANGED <<window_size, raw, all_team_stats, schedules, sb_features>>

Next ==
    \/ \E s \in Sides : SmoothAll(s)
    \/ \E s \in Sides : \E t1, t2 \in Teams : Matchup(s, t1, t2)
    \/ \E s \in Sides : Prepare(s)

(***************************************************************************)
(* Inputs.                                                                 *)
(***************************************************************************)
Vals == {0, 1, 3}

FormVals == {0, 3}

RawRow(w, v) ==
    [week |-> w, points |-> 10 + 7 * v, epa |-> v - 1, success |-> v % 2,
     def_epa |-> 1 - v, pts_allowed |-> 24 - 3 * v, turnovers |-> (v + 1) % 3,
     sacks |-> (2 * v) % 5]

Perms(n) == {p \in [1..n -> 1..n] : \A i, j \in 1..n : p[i] = p[j] => i = j}

\* Series of n rows, weeks 1..n in any order.
UnsortedSeries(n) ==
    {Frame(RawColumns, [i \in 1..n |-> RawRow(p[i], v[i])]) :
        p \in Perms(n), v \in [1..n -> Vals]}

\* Series of n rows, weeks 1..n in ascending order.
SortedSeries(n) ==
    {Frame(RawColumns, [i \in 1..n |-> RawRow(i, v[i])]) : v \in [1..n -> FormVals]}

HistVal(team, w) == IF team = "SEA" THEN (w * w) % 4 ELSE (w + 1) % 3

AltVal(team, w) == HistVal(team, w) + 1 + (w % 2)

\* The rows of the weeks lo..hi that are in the set weeks, in ascending order.
RECURSIVE WeekRows(_, _, _, _)
WeekRows(weeks, lo, hi, val) ==
    IF lo > hi THEN <<>>
    ELSE (IF lo \in weeks THEN <<RawRow(lo, val[lo])>> ELSE <<>>)
         \o WeekRows(weeks, lo + 1, hi, val)

LastWeek == MaxHist + 2

\* The season of a team that played in the given weeks.
History(team, weeks) ==
    Frame(RawColumns, WeekRows(weeks, 1, LastWeek, [w \in 1..LastWeek |-> HistVal(team, w)]))

\* The season of a team as History gives it up to week cut - 1, and from week
\* cut on either nothing (tail_weeks = {}) or other statistics in other weeks.
Variant(team, weeks, cut, tail_weeks) ==
    Frame(RawColumns,
          WeekRows(weeks, 1, cut - 1, [w \in 1..LastWeek |-> HistVal(team, w)])
          \o WeekRows(tail_weeks, cut, LastWeek, [w \in 1..LastWeek |-> AltVal(team, w)]))

Game(w, home, away, hs, as, type) ==
    [week |-> w, home_team |-> home, away_team |-> away, home_score |-> hs,
     away_score |-> as, game_type |-> type]

GameTypes == {"REG", "POST", "PRE"}

Scores == {<<24, 10>>, <<10, 10>>, <<10, 24>>}

Pairs == {<<t1, t2>> \in Teams \X Teams : t1 # t2}

InitWith(window, frames, asked) ==
    /\ window_size = window
    /\ heap = frames
    /\ raw = [s \in Sides |->
                IF s = 1 THEN [SEA |-> 1, NE |-> 2]
                ELSE IF Len(frames) > 3 THEN [SEA |-> 4, NE |-> 5]
                ELSE [SEA |-> 0, NE |-> 0]]
    /\ schedules = 3
    /\ all_team_stats = [s \in Sides |-> [t \in Teams |-> 0]]
    /\ sb_features = [s \in Sides |-> [p \in (IF s = 1 THEN asked ELSE {}) |-> NoCall]]
    /\ training_df = [s \in Sides |-> NoCall]
    /\ pc = [s \in Sides |-> IF s = 1 \/ Len(frames) > 3 THEN "start" ELSE "off"]

Schedule(games) == Frame(ScheduleColumns, games)

\* One series in any order and any window, valid or not.
InitSmooth ==
    \E window \in (0 - 1)..MaxWindow :
    \E n \in 0..MaxLen :
    \E sea \in UnsortedSeries(n) :
        InitWith(window,
                 <<sea, History("NE", 1..MaxLen),
                   Schedule(<<Game(MaxLen + 1, "SEA", "NE", 24, 10, "REG")>>)>>,
                 {<<"SEA", "NE">>})

\* Two series, empty ones included, and both orders of the matchup.
InitMatchup ==
    \E window \in 1..MaxWindow :
    \E n1, n2 \in 0..MaxLen :
    \E sea \in SortedSeries(n1) :
    \E ne \in SortedSeries(n2) :
        InitWith(window,
                 <<sea, ne, Schedule(<<Game(MaxLen + 1, "SEA", "NE", 24, 10, "REG")>>)>>,
                 Pairs)

HistShapes == {1..(MinHistory - 1), 1..MinHistory, 1..MaxHist,
               (1..(MinHistory - 1)) \cup {MaxHist + 1}}

OneGame ==
    {<<Game(w, p[1], p[2], sc[1], sc[2], type)>> :
        w \in 1..LastWeek, p \in Pairs, sc \in Scores, type \in GameTypes}

\* The score of the game at position i: a loss, a tie, then wins of the home
\* team, the point differences all different.
PosScore(i) == <<10 + 3 * i, 16>>

\* The week of the game at position i: the last week and the one before it.
PosWeek(i) == MaxHist + 1 + (i % 2)

GameChoices == [teams : Pairs, type : {"REG", "POST"}]

ManyGames(n) ==
    {[i \in 1..n |-> Game(PosWeek(i), c[i].teams[1], c[i].teams[2],
                          PosScore(i)[1], PosScore(i)[2], c[i].type)] :
        c \in [1..n -> GameChoices]}

Schedules == {<<>>} \cup OneGame \cup UNION {ManyGames(n) : n \in 2..MaxGames}

\* Seasons with too few, just enough and many weeks, and any schedule.
InitTrain ==
    \E sea_weeks, ne_weeks \in HistShapes :
    \E games \in Schedules :
        InitWith(ROLLING_WINDOW,
                 <<History("SEA", sea_weeks), History("NE", ne_weeks), Schedule(games)>>,
                 {<<"SEA", "NE">>})

LeakShapes == {1..MinHistory, 1..MaxHist}

\* Two runs on one game: the seasons of side 2 are those of side 1 up to week
\* cut - 1 and differ from week cut on.
InitLeak ==
    \E window \in {2, ROLLING_WINDOW} :
    \E sea_weeks, ne_weeks \in LeakShapes :
    \E cut \in 1..(MaxHist + 1) :
    \E sea_tail, ne_tail \in {{}, cut..MaxHist} :
    \E w \in 1..(MaxHist + 1) :
    \E p \in Pairs :
        InitWith(window,
                 <<History("SEA", sea_weeks), History("NE", ne_weeks),
                   Schedule(<<Game(w, p[1], p[2], 24, 10, "REG")>>),
                   Variant("SEA", sea_weeks, cut, sea_tail),
                   Variant("NE", ne_weeks, cut, ne_tail)>>,
                 {<<"SEA", "NE">>})

SpecSmooth == InitSmooth /\ [][Next]_vars

SpecMatchup == InitMatchup /\ [][Next]_vars

SpecTrain == InitTrain /\ [][Next]_vars

SpecLeak == InitLeak /\ [][Next]_vars

(***************************************************************************)
(* The state the properties speak of.                                      *)
(***************************************************************************)
RawOf(s, t) == heap[raw[s][t]]

Smoothed(s, t) == heap[all_team_stats[s][t]]

Games == heap[schedules].rows

Called(s) == training_df[s] # NoCall

Returned(s) == training_df[s].err = "none"

Out(s) == heap[training_df[s].ref].rows

\* The number of rows of the history of team t with week < w.
Prior(s, t, w) ==
    Cardinality({i \in 1..Len(Smoothed(s, t).rows) : Smoothed(s, t).rows[i]["week"] < w})

\* The regular-season games both of whose teams have 3 rows of earlier weeks.
Eligible(s) ==
    {i \in 1..Len(Games) :
        /\ Games[i]["game_type"] = "REG"
        /\ Prior(s, Games[i]["home_team"], Games[i]["week"]) >= 3
        /\ Prior(s, Games[i]["away_team"], Games[i]["week"]) >= 3}

\* The k-th eligible game in schedule order.
Kth(s, k) == CHOOSE i \in Eligible(s) : Cardinality({j \in Eligible(s) : j < i}) = k - 1

\* The row of the history of team t of the latest week before w.
Form(s, t, w) ==
    CHOOSE x \in Range(Smoothed(s, t).rows) :
        /\ x["week"] < w
        /\ \A y \in Range(Smoothed(s, t).rows) : y["week"] < w => y["week"] <= x["week"]

\* The row of the raw series with i - 1 rows of earlier weeks.
Ranked(f, i) ==
    CHOOSE x \in Range(f.rows) :
        Cardinality({y \in Range(f.rows) : y["week"] < x["week"]}) = i - 1

Unsorted(f) == Len(f.rows) >= 2 /\ f.rows[1]["week"] > f.rows[2]["week"]

(***************************************************************************)
(* C5. Trailing-window smoothing: with a window W >= 1, the smoothed value *)
(* of every raw field at every position i of the series sorted by week is  *)
(* the arithmetic mean of the field over the positions max(first, i-W+1)   *)
(* to i; it is never NaN, and for a series shorter than W the value at the *)
(* last position is the mean of all the raw values.                        *)
(***************************************************************************)
TrailingWindowMean ==
    \A t \in Teams :
        (all_team_stats[1][t] # 0 /\ window_size >= 1) =>
            LET in == RawOf(1, t)
                out == Smoothed(1, t).rows
                n == Len(in.rows)
            IN /\ Len(out) = n
               /\ \A i \in 1..n : \A k \in 1..Len(rolling_cols) :
                    LET f == rolling_cols[k]
                        lo == Max(1, i - window_size + 1)
                        total == Sum([j \in 1..n |-> Ranked(in, j)[f]], lo, i)
                        m == out[i][RollName(f, window_size)]
                    IN /\ out[i]["week"] = Ranked(in, i)["week"]
                       /\ out[i][f] = Ranked(in, i)[f]
                       /\ m[2] > 0
                       /\ m[1] * (i - lo + 1) = total * m[2]
                       /\ (n < window_size /\ i = n) =>
                            m[1] * n = Sum(Column(in, f), 1, n) * m[2]

TrailingWindowMeanWitness ==
    /\ all_team_stats[1]["SEA"] # 0
    /\ Unsorted(RawOf(1, "SEA"))
    /\ Len(RawOf(1, "SEA").rows) < window_size
    /\ Smoothed(1, "SEA").rows[2][RollName("points", window_size)] = <<41, 2>>

(***************************************************************************)
(* C8. Invalid window: with window_size <= 0 create_rolling_features       *)
(* raises for every series and never returns a smoothed result.            *)
(***************************************************************************)
InvalidWindowRejected ==
    window_size <= 0 =>
        /\ pc[1] \in {"start", "raised"}
        /\ \A t \in Teams : all_team_stats[1][t] = 0

InvalidWindowRejectedWitness ==
    /\ window_size = 0
    /\ pc[1] = "raised"
    /\ Len(RawOf(1, "SEA").rows) = MaxLen

(***************************************************************************)
(* C9. Inputs are never mutated: no call changes the rows, the row order   *)
(* or the columns of a frame the caller holds: the raw series, the         *)
(* smoothed histories, the schedule.                                       *)
(***************************************************************************)
InputRefs ==
    ({raw[s][t] : s \in Sides, t \in Teams}
     \cup {all_team_stats[s][t] : s \in Sides, t \in Teams}
     \cup {schedules}) \ {0}

InputsNeverMutated == [][\A r \in InputRefs : heap'[r] = heap[r]]_vars

InputsNeverMutatedWitness ==
    /\ pc[1] = "done"
    /\ sb_features[1][<<"SEA", "NE">>].err = "none"
    /\ Unsorted(RawOf(1, "SEA"))
    /\ RawOf(1, "SEA").columns = RawColumns
    /\ Len(Smoothed(1, "SEA").columns) = Len(RawColumns) + Len(rolling_cols)

(***************************************************************************)
(* C6. Differential symmetry: the features of (NE, SEA) are those of       *)
(* (SEA, NE) with every *_diff field negated and the t1_/t2_ fields        *)
(* swapped, and in both orders def_epa_diff, pts_allowed_diff and          *)
(* sacks_diff are exactly twice the difference of the smoothed values.     *)
(***************************************************************************)
DiffFields == {"pts_diff", "epa_diff", "success_diff", "turnover_diff",
               "def_epa_diff", "pts_allowed_diff", "sacks_diff", "net_pts_diff"}

WeightedFields == {<<"def_epa_diff", "def_epa">>, <<"pts_allowed_diff", "pts_allowed">>,
                   <<"sacks_diff", "sacks">>}

MatchupRow(s, t1, t2) == heap[sb_features[s][<<t1, t2>>].ref].rows[1]

LastRow(s, t) == Smoothed(s, t).rows[Len(Smoothed(s, t).rows)]

\* x = 2 * (a - b)
Twice(x, a, b) == x[2] > 0 /\ x[1] * a[2] * b[2] = 2 * (a[1] * b[2] - b[1] * a[2]) * x[2]

BothOrders ==
    /\ pc[1] # "start"
    /\ DOMAIN sb_features[1] = Pairs
    /\ \A p \in Pairs : sb_features[1][p].err = "none"

DifferentialSymmetry ==
    BothOrders =>
        LET ab == MatchupRow(1, "SEA", "NE")
            ba == MatchupRow(1, "NE", "SEA")
            sea == LastRow(1, "SEA")
            ne == LastRow(1, "NE")
        IN /\ \A d \in DiffFields : ba[d] = RNeg(ab[d])
           /\ ba["t1_epa"] = ab["t2_epa"] /\ ba["t2_epa"] = ab["t1_epa"]
           /\ ba["t1_success"] = ab["t2_success"] /\ ba["t2_success"] = ab["t1_success"]
           /\ \A w \in WeightedFields :
                /\ Twice(ab[w[1]], sea[RollName(w[2], window_size)],
                         ne[RollName(w[2], window_size)])
                /\ Twice(ba[w[1]], ne[RollName(w[2], window_size)],
                         sea[RollName(w[2], window_size)])

DifferentialSymmetryWitness ==
    /\ BothOrders
    /\ MatchupRow(1, "SEA", "NE")["pts_diff"] = <<7, 1>>
    /\ MatchupRow(1, "NE", "SEA")["pts_diff"] = <<0 - 7, 1>>
    /\ MatchupRow(1, "SEA", "NE")["def_epa_diff"] = <<0 - 2, 1>>
    /\ MatchupRow(1, "SEA", "NE")["t1_epa"] # MatchupRow(1, "SEA", "NE")["t2_epa"]

(***************************************************************************)
(* C7. Empty input to the matchup builder: a call with a history without   *)
(* rows as team1 or team2 raises, and returns no feature row.              *)
(***************************************************************************)
WithEmpty(s, p) ==
    /\ p \in DOMAIN sb_features[s]
    /\ sb_features[s][p] # NoCall
    /\ Len(Smoothed(s, p[1]).rows) = 0 \/ Len(Smoothed(s, p[2]).rows) = 0

EmptyInputRaises ==
    \A p \in Pairs :
        (pc[1] # "start" /\ WithEmpty(1, p)) =>
            /\ sb_features[1][p].err = "IndexError"
            /\ sb_features[1][p].ref = 0

EmptyInputRaisesWitness ==
    /\ pc[1] # "start"
    /\ WithEmpty(1, <<"SEA", "NE">>)
    /\ WithEmpty(1, <<"NE", "SEA">>)
    /\ Len(Smoothed(1, "SEA").rows) = 0
    /\ Len(Smoothed(1, "NE").rows) = MaxLen

(***************************************************************************)
(* C2. Minimum-history policy: a regular-season game contributes a row if  *)
(* and only if both its teams have at least 3 rows of earlier weeks: the   *)
(* call returns one row per such game and none for any other game (the     *)
(* rows of a game told by its point difference), and where it raises no    *)
(* game is such a game.                                                    *)
(***************************************************************************)
\* The point difference of the game at position i.
Margin(i) == Games[i]["home_score"] - Games[i]["away_score"]

MinimumHistoryPolicy ==
    Called(1) =>
        IF Returned(1)
        THEN /\ Len(Out(1)) = Cardinality(Eligible(1))
             /\ \A i \in 1..Len(Games) :
                    Cardinality({k \in 1..Len(Out(1)) : Out(1)[k]["point_diff"] = Margin(i)})
                    = Cardinality({j \in Eligible(1) : Margin(j) = Margin(i)})
        ELSE Eligible(1) = {}

\* A game whose home team has 2 rows of earlier weeks (the away team 5)
\* gives no row, and a later game with 3 such rows of the home team gives one.
MinimumHistoryPolicyWitness ==
    /\ Called(1) /\ Returned(1)
    /\ Len(Out(1)) = 1
    /\ \E i, j \in 1..Len(Games) :
        /\ Games[i]["game_type"] = "REG" /\ Games[j]["game_type"] = "REG"
        /\ Games[i]["home_team"] = Games[j]["home_team"]
        /\ Prior(1, Games[i]["home_team"], Games[i]["week"]) = 2
        /\ Prior(1, Games[i]["away_team"], Games[i]["week"]) = 5
        /\ Prior(1, Games[j]["home_team"], Games[j]["week"]) = 3
        /\ Prior(1, Games[j]["away_team"], Games[j]["week"]) = 5

(***************************************************************************)
(* C3. Zero eligible games: when no game of the schedule is a              *)
(* regular-season game that passes the minimum-history policy, the call    *)
(* raises no error and returns a frame without rows.                       *)
(***************************************************************************)
ZeroEligibleGamesReturnEmpty ==
    (Called(1) /\ Eligible(1) = {}) => (Returned(1) /\ Len(Out(1)) = 0)

(***************************************************************************)
(* C4. Label correctness: the row of a game has home_win = 1 exactly when  *)
(* home_score > away_score, 0 otherwise (a tie gives 0), and point_diff =  *)
(* home_score - away_score.                                                *)
(***************************************************************************)
LabelCorrectness ==
    (Called(1) /\ Returned(1)) =>
        /\ Len(Out(1)) = Cardinality(Eligible(1))
        /\ \A k \in 1..Len(Out(1)) :
            LET game == Games[Kth(1, k)]
            IN /\ Out(1)[k]["home_win"] \in {0, 1}
               /\ Out(1)[k]["home_win"] = 1 <=> game["home_score"] > game["away_score"]
               /\ Out(1)[k]["point_diff"] = game["home_score"] - game["away_score"]
               /\ (game["home_score"] = 24 /\ game["away_score"] = 10) =>
                    (Out(1)[k]["home_win"] = 1 /\ Out(1)[k]["point_diff"] = 14)
               /\ (game["home_score"] = 10 /\ game["away_score"] = 10) =>
                    (Out(1)[k]["home_win"] = 0 /\ Out(1)[k]["point_diff"] = 0)

LabelCorrectnessWitness ==
    /\ Called(1) /\ Returned(1)
    /\ Len(Games) = 1 /\ Len(Out(1)) = 1
    /\ Games[1]["home_score"] = 10 /\ Games[1]["away_score"] = 10
    /\ Out(1)[1]["home_win"] = 0 /\ Out(1)[1]["point_diff"] = 0

(***************************************************************************)
(* C10. Regular-season filter and order: the output holds no row of a game *)
(* that is not a regular-season game, and its k-th row is built from the   *)
(* k-th eligible game in schedule order, the home team as team1 and the    *)
(* away team as team2.                                                     *)
(***************************************************************************)
RegularSeasonOrder ==
    (Called(1) /\ Returned(1)) =>
        /\ Len(Out(1)) = Cardinality(Eligible(1))
        /\ \A k \in 1..Len(Out(1)) :
            LET game == Games[Kth(1, k)]
                home == Form(1, game["home_team"], game["week"])
                away == Form(1, game["away_team"], game["week"])
                col(c) == RollName(c, window_size)
            IN /\ game["game_type"] = "REG"
               /\ Out(1)[k]["point_diff"] = game["home_score"] - game["away_score"]
               /\ Out(1)[k]["t1_epa"] = home[col("epa")]
               /\ Out(1)[k]["t2_epa"] = away[col("epa")]
               /\ Out(1)[k]["t1_success"] = home[col("success")]
               /\ Out(1)[k]["t2_success"] = away[col("success")]
               /\ Out(1)[k]["pts_diff"] = RSub(home[col("points")], away[col("points")])

RegularSeasonOrderWitness ==
    /\ Called(1) /\ Returned(1)
    /\ Len(Games) = 3 /\ Len(Out(1)) = 2
    /\ Games[2]["game_type"] = "POST"
    /\ Prior(1, "SEA", Games[2]["week"]) >= 3 /\ Prior(1, "NE", Games[2]["week"]) >= 3
    /\ Games[1]["home_team"] # Games[3]["home_team"]
    /\ Out(1)[1]["point_diff"] = 0 - 3
    /\ Out(1)[2]["point_diff"] = 3
    /\ Out(1)[1]["t1_epa"] # Out(1)[1]["t2_epa"]

(***************************************************************************)
(* C1. No leakage: with every history smoothed over the whole season and   *)
(* then passed to prepare_training_data, the row of a regular-season game  *)
(* at week w is unaffected by the raw rows of week >= w of either team:    *)
(* two runs whose raw series agree on the rows of week < w give the game   *)
(* the same row, or both none.                                             *)
(***************************************************************************)
Before(f, w) == SelectSeq(f.rows, LAMBDA x : x["week"] < w)

AgreeBefore(t, w) == Before(RawOf(1, t), w) = Before(RawOf(2, t), w)

\* The rows the output of side s holds for the game at position i.
RowsFor(s, i) ==
    IF Returned(s) /\ i \in Eligible(s)
    THEN <<Out(s)[1 + Cardinality({j \in Eligible(s) : j < i})]>>
    ELSE <<>>

NoLeakage ==
    (Called(1) /\ Called(2)) =>
        \A i \in 1..Len(Games) :
            (/\ Games[i]["game_type"] = "REG"
             /\ AgreeBefore(Games[i]["home_team"], Games[i]["week"])
             /\ AgreeBefore(Games[i]["away_team"], Games[i]["week"]))
            => RowsFor(1, i) = RowsFor(2, i)

\* Both teams have other statistics from the week of the game on, in other
\* weeks, and the game has the same row in both runs.
NoLeakageWitness ==
    /\ Called(1) /\ Called(2)
    /\ Returned(1) /\ Returned(2)
    /\ AgreeBefore("SEA", Games[1]["week"]) /\ AgreeBefore("NE", Games[1]["week"])
    /\ \A t \in Teams :
        /\ Len(RawOf(1, t).rows) = MinHistory
        /\ Len(RawOf(2, t).rows) > MinHistory
        /\ RawOf(2, t).rows[MinHistory + 1]["week"] = Games[1]["week"]
        /\ Smoothed(2, t).rows[MinHistory + 1][RollName("points", window_size)]
             # Smoothed(2, t).rows[MinHistory][RollName("points", window_size)]
    /\ Len(Out(1)) = 1 /\ Out(1) = Out(2)

====
